---------------------------- MODULE Spec2Model ----------------------------
(***************************************************************************)
(* Model of the MoonMole lunar mining simulation: the MiningRun            *)
(* configuration, the Truck and Station state machines (components.py)     *)
(* and the simulation() driver with its run_simulation tick loop and the   *)
(* summarize_* aggregation (simulate.py).                                  *)
(*                                                                         *)
(* One step of the model is one call made by the driver: the construction  *)
(* of one Truck or Station, one Station.cycle(), one Truck.cycle(stations),*)
(* the census at the end of a time slice, one summarize_* call.            *)
(***************************************************************************)
EXTENDS Integers, Sequences, FiniteSets, TLC

(***************************************************************************)
(* Bounds of the model.                                                    *)
(***************************************************************************)
MaxTrucks == 2
MaxStations == 2
MaxRunHours == 2

(***************************************************************************)
(* Enumerations.                                                           *)
(***************************************************************************)
TruckStatus == {"IDLE", "MINING", "UNLOADING", "TRAVELING_TO_MINE", "TRAVELING_TO_STATION"}

StationStatus == {"IDLE", "BUSY"}

\* attached_truck = None
None == 0

(***************************************************************************)
(* Configurations the run is started with.  Each is a MiningRun as a       *)
(* caller can build it (command line, web form, unit tests):               *)
(*  - slice_time 5 with the durations 30/30/5/5 of                         *)
(*    initialize_simulation_definition;                                    *)
(*  - slice_time 5 with short durations that all differ, and mining hours  *)
(*    that can be 0 (the web form passes them through unchecked);          *)
(*  - slice_time 20 with durations that are multiples of it, the idle wait *)
(*    shorter than the unloading;                                          *)
(*  - slice_time 40, which divides neither 60 nor the durations.           *)
(***************************************************************************)
TimeParameters ==
  { [slice_time |-> 5,  min_mining_hours |-> 1, max_mining_hours |-> 2,
     inbound_travel_time |-> 30, outbound_travel_time |-> 30,
     unloading_time |-> 5, idle_wait_time |-> 5],
    [slice_time |-> 5,  min_mining_hours |-> 0, max_mining_hours |-> 1,
     inbound_travel_time |-> 10, outbound_travel_time |-> 5,
     unloading_time |-> 10, idle_wait_time |-> 40],
    [slice_time |-> 20, min_mining_hours |-> 0, max_mining_hours |-> 1,
     inbound_travel_time |-> 20, outbound_travel_time |-> 60,
     unloading_time |-> 40, idle_wait_time |-> 20],
    [slice_time |-> 40, min_mining_hours |-> 0, max_mining_hours |-> 1,
     inbound_travel_time |-> 30, outbound_travel_time |-> 30,
     unloading_time |-> 5, idle_wait_time |-> 5] }

MiningRun ==
  { [ num_stations |-> ns, num_trucks |-> nt, run_hours |-> rh,
      total_load_count |-> 0,
      total_idle_truck_time |-> 0, total_busy_truck_time |-> 0,
      total_idle_station_time |-> 0, total_busy_station_time |-> 0,
      min_mining_hours |-> tp.min_mining_hours,
      max_mining_hours |-> tp.max_mining_hours,
      slice_time |-> tp.slice_time,
      inbound_travel_time |-> tp.inbound_travel_time,
      outbound_travel_time |-> tp.outbound_travel_time,
      unloading_time |-> tp.unloading_time,
      idle_wait_time |-> tp.idle_wait_time ] :
      ns \in 0..MaxStations, nt \in 0..MaxTrucks, rh \in 0..MaxRunHours,
      tp \in TimeParameters }

VARIABLES
  simulation_parameters,  \* the MiningRun shared by the driver, trucks and stations
  trucks,                 \* list of Truck objects
  stations,               \* list of Station objects
  time_slice,             \* loop variable of run_simulation
  slice_report,           \* the Counter of the current time slice
  time_slice_report,      \* the table built by run_simulation
  pc,                     \* position of the driver
  idx,                    \* position inside the current for loop (1-based)
  last,                   \* the call made by the last step (observation only)
  calls                   \* per truck, the cycle() calls made on it since the call
                          \* that last ran a transition (observation only)

vars == <<simulation_parameters, trucks, stations, time_slice, slice_report,
          time_slice_report, pc, idx, last, calls>>

(***************************************************************************)
(* MiningRun methods.                                                      *)
(***************************************************************************)
run_minutes == simulation_parameters.run_hours * 60

\* run_hours * int(60/slice_time): the quotient is truncated before the product
run_time_slices ==
  simulation_parameters.run_hours * (60 \div simulation_parameters.slice_time)

\* variant: the upper bound of the draw is taken one hour too far
generate_mining_time_past_max ==
  { h * 60 : h \in simulation_parameters.min_mining_hours
                     ..(simulation_parameters.max_mining_hours + 1) }

\* random.randint(min, max) * 60: every value the draw can produce
generate_mining_time ==
  { h * 60 : h \in simulation_parameters.min_mining_hours..simulation_parameters.max_mining_hours }

\* Python's round() of the quotient n/d (n >= 0, d > 0): nearest integer, ties to even
Round(n, d) ==
  LET q == n \div d
      r == n % d
  IN  IF 2 * r < d THEN q
      ELSE IF 2 * r > d THEN q + 1
      ELSE IF q % 2 = 0 THEN q ELSE q + 1

\* round(100 * ((total_busy_truck_time/num_trucks)/run_minutes)): what the call
\* raises ("" when it returns) and what it returns; a zero divisor raises
generate_truck_efficiency ==
  IF simulation_parameters.num_trucks = 0 \/ run_minutes = 0
  THEN [raises |-> "ZeroDivisionError", returns |-> 0]
  ELSE [raises |-> "",
        returns |-> Round(100 * simulation_parameters.total_busy_truck_time,
                          simulation_parameters.num_trucks * run_minutes)]

generate_station_efficiency ==
  IF simulation_parameters.num_stations = 0 \/ run_minutes = 0
  THEN [raises |-> "ZeroDivisionError", returns |-> 0]
  ELSE [raises |-> "",
        returns |-> Round(100 * simulation_parameters.total_busy_station_time,
                          simulation_parameters.num_stations * run_minutes)]

(***************************************************************************)
(* Station.                                                                *)
(***************************************************************************)
Station_init ==
  [ busy_minutes |-> 0, idle_minutes |-> 0, state |-> "IDLE",
    attached_truck |-> None, completed_loads |-> 0 ]

\* truck: the index of the truck in the truck list (its identity)
Station_attach(station, truck) ==
  [station EXCEPT !.attached_truck = truck, !.state = "BUSY"]

\* variant: the release forgets to clear the attached truck
Station_release_keeps_truck(station) ==
  [station EXCEPT !.state = "IDLE", !.completed_loads = @ + 1]

\* variant: the release does not count the unload
Station_release_no_count(station) ==
  [station EXCEPT !.state = "IDLE", !.attached_truck = None]

Station_release(station) ==
  [station EXCEPT !.state = "IDLE", !.completed_loads = @ + 1, !.attached_truck = None]

\* variant: a busy station is charged the unloading time instead of one slice
Station_cycle_charges_unloading(station) ==
  IF station.state = "BUSY"
  THEN [station EXCEPT !.busy_minutes = @ + simulation_parameters.unloading_time,
                       !.state = "IDLE", !.completed_loads = @ + 1,
                       !.attached_truck = None]
  ELSE [station EXCEPT !.idle_minutes = @ + simulation_parameters.slice_time]

\* variant: a busy station stays busy while its truck is still unloading
Station_cycle_busy_while_unloading(station) ==
  IF station.state = "BUSY"
  THEN IF /\ trucks[station.attached_truck].state = "UNLOADING"
          /\ trucks[station.attached_truck].remaining_time > 0
       THEN [station EXCEPT !.busy_minutes = @ + simulation_parameters.slice_time]
       ELSE Station_release([station EXCEPT !.busy_minutes = @ + simulation_parameters.slice_time])
  ELSE [station EXCEPT !.idle_minutes = @ + simulation_parameters.slice_time]

\* variant: the idle minutes are added whatever the state was
Station_cycle_always_idle_minutes(station) ==
  IF station.state = "BUSY"
  THEN [Station_release([station EXCEPT !.busy_minutes = @ + simulation_parameters.slice_time])
          EXCEPT !.idle_minutes = @ + simulation_parameters.slice_time]
  ELSE [station EXCEPT !.idle_minutes = @ + simulation_parameters.slice_time]

Station_cycle(station) ==
  IF station.state = "BUSY"
  THEN Station_release([station EXCEPT !.busy_minutes = @ + simulation_parameters.slice_time])
  ELSE [station EXCEPT !.idle_minutes = @ + simulation_parameters.slice_time]

(***************************************************************************)
(* Truck.  The operations that consult the station list return the truck   *)
(* and the station list as they are after the call.                        *)
(***************************************************************************)
\* variant: the mining time is credited when the state is entered
Truck_init_logs_on_entry(mining_time) ==
  [ time_logs |-> [t \in TruckStatus |-> IF t = "MINING" THEN mining_time ELSE 0],
    state |-> "MINING",
    completed_loads |-> 0,
    remaining_time |-> mining_time,
    current_cycle_mining_time |-> mining_time ]

\* variant: the truck is built with nothing left to mine
Truck_init_no_wait(mining_time) ==
  [ time_logs |-> [t \in TruckStatus |-> 0],
    state |-> "MINING",
    completed_loads |-> 0,
    remaining_time |-> 0,
    current_cycle_mining_time |-> mining_time ]

Truck_init(mining_time) ==
  [ time_logs |-> [t \in TruckStatus |-> 0],
    state |-> "MINING",
    completed_loads |-> 0,
    remaining_time |-> mining_time,
    current_cycle_mining_time |-> mining_time ]

RECURSIVE ScanStations(_, _)
\* the for loop of get_available_station, from list position i on
ScanStations(stns, i) ==
  IF i > Len(stns) THEN None
  ELSE IF stns[i].state = "BUSY" THEN ScanStations(stns, i + 1)
  ELSE i

\* variant: the scan keeps the last station that is not BUSY
get_available_station_last(stns) ==
  LET free == { i \in 1..Len(stns) : stns[i].state # "BUSY" }
  IN  IF free = {} THEN None
      ELSE CHOOSE i \in free : \A j \in free : j <= i

\* variant: the scan does not look at the state of the station
get_available_station_unchecked(stns) ==
  IF Len(stns) = 0 THEN None ELSE 1

\* variant: the loop gives up at the first station instead of going on
get_available_station_first_only(stns) ==
  IF Len(stns) = 0 THEN None
  ELSE IF stns[1].state = "BUSY" THEN None ELSE 1

\* variant: the test of the scan is inverted, a BUSY station is returned
get_available_station_inverted(stns) ==
  LET busy == { i \in 1..Len(stns) : stns[i].state = "BUSY" }
  IN  IF busy = {} THEN None
      ELSE CHOOSE i \in busy : \A j \in busy : i <= j

\* index of the station returned, None when the loop runs to its end
get_available_station(stns) == ScanStations(stns, 1)

\* variant: the truck is given the outbound travel time
transition_from_mining_outbound(truck) ==
  [truck EXCEPT !.time_logs["MINING"] = @ + truck.current_cycle_mining_time,
                !.state = "TRAVELING_TO_STATION",
                !.remaining_time = simulation_parameters.outbound_travel_time]

transition_from_mining(truck) ==
  [truck EXCEPT !.time_logs["MINING"] = @ + truck.current_cycle_mining_time,
                !.state = "TRAVELING_TO_STATION",
                !.remaining_time = simulation_parameters.inbound_travel_time]

\* variant: the truck starts unloading but attach() is never called
transition_from_inbound_no_attach(truck, name, stns) ==
  LET logged == [truck EXCEPT !.time_logs["TRAVELING_TO_STATION"] =
                                 @ + simulation_parameters.inbound_travel_time]
      station == get_available_station(stns)
  IN  IF station # None
      THEN [ truck |-> [logged EXCEPT !.state = "UNLOADING",
                                      !.remaining_time = simulation_parameters.unloading_time],
             stations |-> stns ]
      ELSE [ truck |-> [logged EXCEPT !.state = "IDLE",
                                      !.remaining_time = simulation_parameters.idle_wait_time],
             stations |-> stns ]

\* variant: the station is released in the call that attached it
transition_from_inbound_attach_and_release(truck, name, stns) ==
  LET logged == [truck EXCEPT !.time_logs["TRAVELING_TO_STATION"] =
                                 @ + simulation_parameters.inbound_travel_time]
      station == get_available_station(stns)
  IN  IF station # None
      THEN [ truck |-> [logged EXCEPT !.state = "UNLOADING",
                                      !.remaining_time = simulation_parameters.unloading_time],
             stations |-> [stns EXCEPT ![station] =
                             Station_release(Station_attach(@, name))] ]
      ELSE [ truck |-> [logged EXCEPT !.state = "IDLE",
                                      !.remaining_time = simulation_parameters.idle_wait_time],
             stations |-> stns ]

\* variant: the tick of the arrival is already taken off the unloading time
transition_from_inbound_counts_this_tick(truck, name, stns) ==
  LET logged == [truck EXCEPT !.time_logs["TRAVELING_TO_STATION"] =
                                 @ + simulation_parameters.inbound_travel_time]
      station == get_available_station(stns)
  IN  IF station # None
      THEN [ truck |-> [logged EXCEPT !.state = "UNLOADING",
                                      !.remaining_time = simulation_parameters.unloading_time
                                                           - simulation_parameters.slice_time],
             stations |-> [stns EXCEPT ![station] = Station_attach(@, name)] ]
      ELSE [ truck |-> [logged EXCEPT !.state = "IDLE",
                                      !.remaining_time = simulation_parameters.idle_wait_time],
             stations |-> stns ]

transition_from_inbound(truck, name, stns) ==
  LET logged == [truck EXCEPT !.time_logs["TRAVELING_TO_STATION"] =
                                 @ + simulation_parameters.inbound_travel_time]
      station == get_available_station(stns)
  IN  IF station # None
      THEN [ truck |-> [logged EXCEPT !.state = "UNLOADING",
                                      !.remaining_time = simulation_parameters.unloading_time],
             stations |-> [stns EXCEPT ![station] = Station_attach(@, name)] ]
      ELSE [ truck |-> [logged EXCEPT !.state = "IDLE",
                                      !.remaining_time = simulation_parameters.idle_wait_time],
             stations |-> stns ]

\* variant: the finished unload is not counted
transition_from_unloading_no_count(truck) ==
  [truck EXCEPT !.time_logs["UNLOADING"] = @ + simulation_parameters.unloading_time,
                !.state = "TRAVELING_TO_MINE",
                !.remaining_time = simulation_parameters.outbound_travel_time]

transition_from_unloading(truck) ==
  [truck EXCEPT !.time_logs["UNLOADING"] = @ + simulation_parameters.unloading_time,
                !.completed_loads = @ + 1,
                !.state = "TRAVELING_TO_MINE",
                !.remaining_time = simulation_parameters.outbound_travel_time]

\* variant: a truck that stays idle waits one slice ("waiting five minutes")
transition_from_idle_waits_one_slice(truck, name, stns) ==
  LET r == transition_from_inbound(
             [truck EXCEPT !.time_logs["IDLE"] = @ + simulation_parameters.idle_wait_time],
             name, stns)
  IN  IF r.truck.state = "IDLE"
      THEN [r EXCEPT !.truck.remaining_time = simulation_parameters.slice_time]
      ELSE r

transition_from_idle(truck, name, stns) ==
  transition_from_inbound(
    [truck EXCEPT !.time_logs["IDLE"] = @ + simulation_parameters.idle_wait_time],
    name, stns)

\* variant: the mining time kept for the log is not the one given to the counter
transition_from_outbound_two_draws(truck, mining_time) ==
  [truck EXCEPT !.time_logs["TRAVELING_TO_MINE"] = @ + simulation_parameters.outbound_travel_time,
                !.state = "MINING",
                !.remaining_time = mining_time,
                !.current_cycle_mining_time = simulation_parameters.max_mining_hours * 60]

\* mining_time: the value generate_mining_time() returns to this call
transition_from_outbound(truck, mining_time) ==
  [truck EXCEPT !.time_logs["TRAVELING_TO_MINE"] = @ + simulation_parameters.outbound_travel_time,
                !.state = "MINING",
                !.remaining_time = mining_time,
                !.current_cycle_mining_time = mining_time]

\* variant: the slice subtracted is the literal five minutes of the docstring
Truck_cycle_five_minutes(truck, name, stns, mining_time) ==
  IF truck.remaining_time # 0
  THEN [ truck |-> [truck EXCEPT !.remaining_time = @ - 5], stations |-> stns ]
  ELSE CASE truck.state = "MINING" ->
              [truck |-> transition_from_mining(truck), stations |-> stns]
         [] truck.state = "TRAVELING_TO_STATION" ->
              transition_from_inbound(truck, name, stns)
         [] truck.state = "UNLOADING" ->
              [truck |-> transition_from_unloading(truck), stations |-> stns]
         [] truck.state = "IDLE" ->
              transition_from_idle(truck, name, stns)
         [] truck.state = "TRAVELING_TO_MINE" ->
              [truck |-> transition_from_outbound(truck, mining_time), stations |-> stns]

\* variant: the transition runs in the call whose subtraction reaches zero
Truck_cycle_fires_at_zero(truck, name, stns, mining_time) ==
  LET t == IF truck.remaining_time # 0
           THEN [truck EXCEPT !.remaining_time = @ - simulation_parameters.slice_time]
           ELSE truck
  IN  IF t.remaining_time # 0
      THEN [ truck |-> t, stations |-> stns ]
      ELSE CASE t.state = "MINING" ->
                  [truck |-> transition_from_mining(t), stations |-> stns]
             [] t.state = "TRAVELING_TO_STATION" ->
                  transition_from_inbound(t, name, stns)
             [] t.state = "UNLOADING" ->
                  [truck |-> transition_from_unloading(t), stations |-> stns]
             [] t.state = "IDLE" ->
                  transition_from_idle(t, name, stns)
             [] t.state = "TRAVELING_TO_MINE" ->
                  [truck |-> transition_from_outbound(t, mining_time), stations |-> stns]

\* variant: a waiting truck's counter is stepped the wrong way
Truck_cycle_counts_up(truck, name, stns, mining_time) ==
  IF truck.remaining_time # 0
  THEN [ truck |-> [truck EXCEPT !.remaining_time = @ + simulation_parameters.slice_time],
         stations |-> stns ]
  ELSE CASE truck.state = "MINING" ->
              [truck |-> transition_from_mining(truck), stations |-> stns]
         [] truck.state = "TRAVELING_TO_STATION" ->
              transition_from_inbound(truck, name, stns)
         [] truck.state = "UNLOADING" ->
              [truck |-> transition_from_unloading(truck), stations |-> stns]
         [] truck.state = "IDLE" ->
              transition_from_idle(truck, name, stns)
         [] truck.state = "TRAVELING_TO_MINE" ->
              [truck |-> transition_from_outbound(truck, mining_time), stations |-> stns]

\* `if self.remaining_time:` is true of every non-zero value, negative ones included
Truck_cycle(truck, name, stns, mining_time) ==
  IF truck.remaining_time # 0
  THEN [ truck |-> [truck EXCEPT !.remaining_time = @ - simulation_parameters.slice_time],
         stations |-> stns ]
  ELSE CASE truck.state = "MINING" ->
              [truck |-> transition_from_mining(truck), stations |-> stns]
         [] truck.state = "TRAVELING_TO_STATION" ->
              transition_from_inbound(truck, name, stns)
         [] truck.state = "UNLOADING" ->
              [truck |-> transition_from_unloading(truck), stations |-> stns]
         [] truck.state = "IDLE" ->
              transition_from_idle(truck, name, stns)
         [] truck.state = "TRAVELING_TO_MINE" ->
              [truck |-> transition_from_outbound(truck, mining_time), stations |-> stns]

\* does this cycle() call draw a mining time?
DrawsMiningTime(truck) ==
  truck.remaining_time = 0 /\ truck.state = "TRAVELING_TO_MINE"

(***************************************************************************)
(* simulate.py                                                             *)
(***************************************************************************)
TIME_SLICE_REPORT_ORDER ==
  << <<"TruckStatus", "MINING">>, <<"TruckStatus", "TRAVELING_TO_STATION">>,
     <<"TruckStatus", "IDLE">>, <<"TruckStatus", "UNLOADING">>,
     <<"TruckStatus", "TRAVELING_TO_MINE">>,
     <<"StationStatus", "BUSY">>, <<"StationStatus", "IDLE">> >>

\* the keys a Counter of one time slice can hold; a missing key reads as 0
CounterKeys ==
  ({"TruckStatus"} \X TruckStatus) \cup ({"StationStatus"} \X StationStatus)

Counter == [k \in CounterKeys |-> 0]

initialize_time_slice_report ==
  << <<"", "Mining Truck", "", "", "", "", "", "Unloading Station">>,
     <<"Slice Count">> \o [i \in 1..Len(TIME_SLICE_REPORT_ORDER) |-> TIME_SLICE_REPORT_ORDER[i][2]] >>

RECURSIVE SumOver(_)
\* the total a `for x in list: total += value` loop adds, values in list order
SumOver(values) ==
  IF values = << >> THEN 0 ELSE Head(values) + SumOver(Tail(values))

Init ==
  /\ simulation_parameters \in MiningRun
  /\ trucks = << >>
  /\ stations = << >>
  /\ time_slice = 0
  /\ slice_report = Counter
  /\ time_slice_report = << >>
  /\ pc = "initialize_trucks"
  /\ idx = 1
  /\ last = [op |-> "none", who |-> 0, branch |-> "", station |-> None]
  /\ calls = << >>

\* simulation(): trucks = initialize_trucks(simulation_parameters)
initialize_trucks ==
  /\ pc = "initialize_trucks"
  /\ \E draws \in [1..simulation_parameters.num_trucks -> generate_mining_time] :
       trucks' = [truck_num \in 1..simulation_parameters.num_trucks |->
                    Truck_init(draws[truck_num])]
  /\ pc' = "initialize_unloading_stations"
  /\ last' = [op |-> "initialize_trucks", who |-> 0, branch |-> "", station |-> None]
  /\ calls' = [truck_num \in 1..simulation_parameters.num_trucks |-> 0]
  /\ UNCHANGED <<simulation_parameters, stations, time_slice, slice_report,
                 time_slice_report, idx>>

\* simulation(): stations = initialize_unloading_stations(simulation_parameters)
initialize_unloading_stations ==
  /\ pc = "initialize_unloading_stations"
  /\ stations' = [station_num \in 1..simulation_parameters.num_stations |-> Station_init]
  /\ pc' = "run_simulation"
  /\ last' = [op |-> "initialize_unloading_stations", who |-> 0, branch |-> "",
              station |-> None]
  /\ UNCHANGED <<simulation_parameters, trucks, time_slice, slice_report,
                 time_slice_report, idx, calls>>

\* run_simulation entry: the table starts as the two header rows
run_simulation ==
  /\ pc = "run_simulation"
  /\ time_slice_report' = initialize_time_slice_report
  /\ time_slice' = 0
  /\ pc' = "for_time_slice"
  /\ last' = [op |-> "run_simulation", who |-> 0, branch |-> "", station |-> None]
  /\ UNCHANGED <<simulation_parameters, trucks, stations, slice_report, idx, calls>>

\* for time_slice in range(run_time_slices()): slice_report = Counter()
for_time_slice ==
  /\ pc = "for_time_slice"
  /\ IF time_slice < run_time_slices
     THEN /\ slice_report' = Counter
          /\ pc' = "stations"
          /\ idx' = 1
          /\ last' = [op |-> "for_time_slice", who |-> time_slice, branch |-> "enter",
                      station |-> None]
     ELSE /\ pc' = "summarize_truck_results"
          /\ last' = [op |-> "for_time_slice", who |-> time_slice, branch |-> "return",
                      station |-> None]
          /\ UNCHANGED <<slice_report, idx>>
  /\ UNCHANGED <<simulation_parameters, trucks, stations, time_slice, time_slice_report,
                 calls>>

\* for station in stations: station.cycle()
cycle_station ==
  /\ pc = "stations"
  /\ IF idx <= Len(stations)
     THEN /\ stations' = [stations EXCEPT ![idx] = Station_cycle(@)]
          /\ idx' = idx + 1
          /\ last' = [op |-> "Station.cycle", who |-> idx,
                      branch |-> stations[idx].state, station |-> None]
          /\ pc' = pc
     ELSE /\ pc' = "trucks"
          /\ idx' = 1
          /\ last' = [op |-> "stations_done", who |-> 0, branch |-> "", station |-> None]
          /\ UNCHANGED stations
  /\ UNCHANGED <<simulation_parameters, trucks, time_slice, slice_report, time_slice_report,
                 calls>>

\* for truck in trucks: truck.cycle(stations); slice_report[truck.state] += 1
cycle_truck ==
  /\ pc = "trucks"
  /\ IF idx <= Len(trucks)
     THEN /\ \E mining_time \in IF DrawsMiningTime(trucks[idx])
                                THEN generate_mining_time ELSE {0} :
               LET r == Truck_cycle(trucks[idx], idx, stations, mining_time)
               IN  /\ trucks' = [trucks EXCEPT ![idx] = r.truck]
                   /\ stations' = r.stations
                   /\ slice_report' =
                        [slice_report EXCEPT ![<<"TruckStatus", r.truck.state>>] = @ + 1]
                   /\ last' = [op |-> "Truck.cycle", who |-> idx,
                               branch |-> IF trucks[idx].remaining_time # 0
                                          THEN "stay" ELSE trucks[idx].state,
                               station |-> IF r.stations = stations THEN None
                                           ELSE get_available_station(stations)]
          /\ calls' = [calls EXCEPT ![idx] = IF trucks[idx].remaining_time # 0
                                             THEN @ + 1 ELSE 0]
          /\ idx' = idx + 1
          /\ pc' = pc
     ELSE /\ pc' = "census"
          /\ idx' = 1
          /\ last' = [op |-> "trucks_done", who |-> 0, branch |-> "", station |-> None]
          /\ UNCHANGED <<trucks, stations, slice_report, calls>>
  /\ UNCHANGED <<simulation_parameters, time_slice, time_slice_report>>

\* the Counter after the third pass: slice_report[station.state] += 1 for every station
CountStations(report, stns) ==
  [k \in CounterKeys |->
     IF k[1] = "StationStatus"
     THEN report[k] + Cardinality({i \in 1..Len(stns) : stns[i].state = k[2]})
     ELSE report[k]]

\* variant: a category nothing was counted in is left out of the row
time_slice_report_line_skips_zero(slice, report) ==
  LET Counted(n) == n # 0
  IN  <<slice>> \o SelectSeq([i \in 1..Len(TIME_SLICE_REPORT_ORDER) |->
                                report[TIME_SLICE_REPORT_ORDER[i]]], Counted)

\* the row of one time slice: the slice index, then the counts in report order
time_slice_report_line(slice, report) ==
  <<slice>> \o [i \in 1..Len(TIME_SLICE_REPORT_ORDER) |-> report[TIME_SLICE_REPORT_ORDER[i]]]

\* third pass over the stations, then the row is appended and the loop goes on
census ==
  /\ pc = "census"
  /\ slice_report' = CountStations(slice_report, stations)
  /\ time_slice_report' =
       Append(time_slice_report, time_slice_report_line(time_slice, slice_report'))
  /\ time_slice' = time_slice + 1
  /\ pc' = "for_time_slice"
  /\ last' = [op |-> "census", who |-> time_slice, branch |-> "", station |-> None]
  /\ UNCHANGED <<simulation_parameters, trucks, stations, idx, calls>>

summarize_truck_results ==
  /\ pc = "summarize_truck_results"
  /\ simulation_parameters' =
       [simulation_parameters EXCEPT
          !.total_load_count = @ + SumOver([t \in 1..Len(trucks) |-> trucks[t].completed_loads]),
          !.total_idle_truck_time = @ + SumOver([t \in 1..Len(trucks) |-> trucks[t].time_logs["IDLE"]]),
          !.total_busy_truck_time = @ + SumOver([t \in 1..Len(trucks) |-> trucks[t].time_logs["MINING"]])]
  /\ pc' = "summarize_station_results"
  /\ last' = [op |-> "summarize_truck_results", who |-> 0, branch |-> "", station |-> None]
  /\ UNCHANGED <<trucks, stations, time_slice, slice_report, time_slice_report, idx, calls>>

\* after it simulation() writes the CSV file and returns simulation_parameters
summarize_station_results ==
  /\ pc = "summarize_station_results"
  /\ simulation_parameters' =
       [simulation_parameters EXCEPT
          !.total_idle_station_time = @ + SumOver([i \in 1..Len(stations) |-> stations[i].idle_minutes]),
          !.total_busy_station_time = @ + SumOver([i \in 1..Len(stations) |-> stations[i].busy_minutes])]
  /\ pc' = "done"
  /\ last' = [op |-> "summarize_station_results", who |-> 0, branch |-> "", station |-> None]
  /\ UNCHANGED <<trucks, stations, time_slice, slice_report, time_slice_report, idx, calls>>

Next ==
  \/ initialize_trucks
  \/ initialize_unloading_stations
  \/ run_simulation
  \/ for_time_slice
  \/ cycle_station
  \/ cycle_truck
  \/ census
  \/ summarize_truck_results
  \/ summarize_station_results

Spec == Init /\ [][Next]_vars
(***************************************************************************)
(* Properties.                                                             *)
(***************************************************************************)
\* the truck whose cycle() the next step of the truck loop calls
CyclingTruck == pc = "trucks" /\ idx <= Len(trucks)

\* the station whose cycle() the next step of the station loop calls
CyclingStation == pc = "stations" /\ idx <= Len(stations)

AllBusy(stns) == \A i \in 1..Len(stns) : stns[i].state = "BUSY"

SumTimeLogs(truck) ==
  truck.time_logs["MINING"] + truck.time_logs["TRAVELING_TO_STATION"]
    + truck.time_logs["UNLOADING"] + truck.time_logs["TRAVELING_TO_MINE"]
    + truck.time_logs["IDLE"]

\* C1: after N ticks of run_simulation (N = time_slice at the loop head) the five
\* time_logs accumulators of every truck sum to N x slice_time.
C1_TimeLogsAccountForEveryTick ==
  pc = "for_time_slice" =>
    \A t \in 1..Len(trucks) :
      SumTimeLogs(trucks[t]) = time_slice * simulation_parameters.slice_time

\* C2: in every state of the run, between any two calls the driver makes, a
\* station has an attached truck if and only if its state is BUSY.
C2_AttachedIffBusy ==
  \A i \in 1..Len(stations) :
    (stations[i].attached_truck # None) <=> (stations[i].state = "BUSY")

C2_Witness ==
  /\ pc \in {"trucks", "census", "stations"}
  /\ \E i \in 1..Len(stations) :
       stations[i].state = "BUSY" /\ stations[i].attached_truck # None
  /\ \E i \in 1..Len(stations) :
       stations[i].state = "IDLE" /\ stations[i].completed_loads > 0

\* the data rows of the table, once run_simulation has returned
DataRows == SubSeq(time_slice_report, 3, Len(time_slice_report))

\* C3: when run_hours*60/slice_time is an exact integer, run_simulation returns
\* the two header rows and exactly that many data rows, numbered 0, 1, 2, ...
C3_OneRowPerTick ==
  (pc = "summarize_truck_results"
     /\ (simulation_parameters.run_hours * 60) % simulation_parameters.slice_time = 0)
  => /\ Len(time_slice_report) =
          2 + (simulation_parameters.run_hours * 60) \div simulation_parameters.slice_time
     /\ \A n \in 1..Len(DataRows) : DataRows[n][1] = n - 1

\* C4: after a complete simulation() with at least one truck, one station and
\* one hour, the busy totals are bounded by count x run_minutes and both
\* efficiencies are percentages between 0 and 100.
C4_EfficiencyWithinPercent ==
  (pc = "done" /\ simulation_parameters.num_trucks >= 1
     /\ simulation_parameters.num_stations >= 1 /\ simulation_parameters.run_hours >= 1)
  => /\ simulation_parameters.total_busy_truck_time
          <= simulation_parameters.num_trucks * run_minutes
     /\ simulation_parameters.total_busy_station_time
          <= simulation_parameters.num_stations * run_minutes
     /\ generate_truck_efficiency.raises = ""
     /\ generate_truck_efficiency.returns \in 0..100
     /\ generate_station_efficiency.raises = ""
     /\ generate_station_efficiency.returns \in 0..100

C4_Witness ==
  /\ pc = "done"
  /\ simulation_parameters.num_trucks >= 1
  /\ simulation_parameters.num_stations >= 1
  /\ simulation_parameters.run_hours >= 1
  /\ simulation_parameters.total_busy_truck_time > 0
  /\ simulation_parameters.total_busy_station_time > 0
  /\ generate_truck_efficiency.returns \in 1..100

\* C6: Station.cycle() on a BUSY station returns it to IDLE, clears the attached
\* truck, counts one completed unload and adds one slice_time to busy_minutes
\* only; on an IDLE station it adds one slice_time to idle_minutes only; an
\* attach turns an IDLE station BUSY with the attaching truck recorded.
C6_StationAttachCycle ==
  [][ /\ CyclingStation =>
           LET before == stations[idx]
               after == stations'[idx]
           IN  IF before.state = "BUSY"
               THEN after = [before EXCEPT
                               !.state = "IDLE", !.attached_truck = None,
                               !.completed_loads = before.completed_loads + 1,
                               !.busy_minutes = before.busy_minutes
                                                  + simulation_parameters.slice_time]
               ELSE after = [before EXCEPT
                               !.idle_minutes = before.idle_minutes
                                                  + simulation_parameters.slice_time]
      /\ CyclingTruck =>
           \A j \in 1..Len(stations) :
             stations'[j] # stations[j] =>
               /\ stations[j].state = "IDLE"
               /\ stations'[j] = [stations[j] EXCEPT !.state = "BUSY",
                                                      !.attached_truck = idx]
    ]_vars

\* a station that was attached by a truck has been cycled back to IDLE
C6_Witness ==
  /\ last.op = "Station.cycle"
  /\ last.branch = "BUSY"
  /\ stations[last.who].state = "IDLE"
  /\ stations[last.who].busy_minutes > 0
  /\ stations[last.who].idle_minutes > 0

\* C7: cycle() of a MINING truck entered with remaining_time 0 leaves it
\* TRAVELING_TO_STATION with remaining_time = inbound_travel_time.
C7_MiningToInbound ==
  [][ (CyclingTruck /\ trucks[idx].state = "MINING" /\ trucks[idx].remaining_time = 0)
      => /\ trucks'[idx].state = "TRAVELING_TO_STATION"
         /\ trucks'[idx].remaining_time = simulation_parameters.inbound_travel_time
    ]_vars

\* a truck has just left MINING while a station was BUSY
C7_Witness ==
  /\ last.op = "Truck.cycle"
  /\ last.branch = "MINING"
  /\ trucks[last.who].state = "TRAVELING_TO_STATION"
  /\ \E i \in 1..Len(stations) : stations[i].state = "BUSY"

\* C8: cycle() of a TRAVELING_TO_STATION or IDLE truck entered with
\* remaining_time 0 while every station is BUSY (or there is none) leaves it
\* IDLE with remaining_time = idle_wait_time and changes no station.
C8_NoStationMeansIdle ==
  [][ (CyclingTruck /\ trucks[idx].state \in {"TRAVELING_TO_STATION", "IDLE"}
         /\ trucks[idx].remaining_time = 0 /\ AllBusy(stations))
      => /\ trucks'[idx].state = "IDLE"
         /\ trucks'[idx].remaining_time = simulation_parameters.idle_wait_time
         /\ stations' = stations
    ]_vars

\* an IDLE truck has retried and found the only stations BUSY again
C8_Witness ==
  /\ last.op = "Truck.cycle"
  /\ last.branch = "IDLE"
  /\ last.station = None
  /\ trucks[last.who].state = "IDLE"
  /\ Len(stations) >= 1

\* C9: cycle() of a TRAVELING_TO_STATION or IDLE truck entered with
\* remaining_time 0 while some station is IDLE leaves it UNLOADING with
\* remaining_time = unloading_time; exactly one station changes, from IDLE to
\* BUSY with this truck attached.
C9_IdleStationMeansUnloading ==
  [][ (CyclingTruck /\ trucks[idx].state \in {"TRAVELING_TO_STATION", "IDLE"}
         /\ trucks[idx].remaining_time = 0 /\ ~AllBusy(stations))
      => /\ trucks'[idx].state = "UNLOADING"
         /\ trucks'[idx].remaining_time = simulation_parameters.unloading_time
         /\ Len(stations') = Len(stations)
         /\ \E j \in 1..Len(stations) :
              /\ stations[j].state = "IDLE"
              /\ stations'[j] = [stations[j] EXCEPT !.state = "BUSY",
                                                     !.attached_truck = idx]
              /\ \A k \in 1..Len(stations) : k # j => stations'[k] = stations[k]
    ]_vars

\* a truck that had been waiting IDLE has attached to the second station
C9_Witness ==
  /\ last.op = "Truck.cycle"
  /\ last.branch \in {"TRAVELING_TO_STATION", "IDLE"}
  /\ last.station = 2
  /\ trucks[last.who].state = "UNLOADING"
  /\ stations[2].attached_truck = last.who
  /\ stations[1].state = "BUSY"

\* C10: get_available_station returns the first station of the list that is
\* IDLE, and None when every station is BUSY.
C10_FirstIdleStation ==
  LET station == get_available_station(stations)
  IN  IF AllBusy(stations)
      THEN station = None
      ELSE /\ station \in 1..Len(stations)
           /\ stations[station].state = "IDLE"
           /\ \A j \in 1..(station - 1) : stations[j].state = "BUSY"

\* a truck is about to ask for a station while the first one is taken
C10_Witness ==
  /\ CyclingTruck
  /\ trucks[idx].state \in {"TRAVELING_TO_STATION", "IDLE"}
  /\ trucks[idx].remaining_time = 0
  /\ Len(stations) >= 2
  /\ stations[1].state = "BUSY"
  /\ stations[2].state = "IDLE"
  /\ get_available_station(stations) = 2
\* C11: cycle() of an UNLOADING truck entered with remaining_time 0 leaves it
\* TRAVELING_TO_MINE with remaining_time = outbound_travel_time and one more
\* completed load; no other step changes a truck's completed_loads.
C11_LoadCountedOncePerUnload ==
  [][ /\ (CyclingTruck /\ trucks[idx].state = "UNLOADING" /\ trucks[idx].remaining_time = 0)
         => /\ trucks'[idx].state = "TRAVELING_TO_MINE"
            /\ trucks'[idx].remaining_time = simulation_parameters.outbound_travel_time
            /\ trucks'[idx].completed_loads = trucks[idx].completed_loads + 1
      /\ \A t \in 1..Len(trucks) :
           trucks'[t].completed_loads # trucks[t].completed_loads
           => (CyclingTruck /\ idx = t /\ trucks[t].state = "UNLOADING"
                 /\ trucks[t].remaining_time = 0)
    ]_vars

\* a truck has just finished its second unload
C11_Witness ==
  /\ last.op = "Truck.cycle"
  /\ last.branch = "UNLOADING"
  /\ trucks[last.who].state = "TRAVELING_TO_MINE"
  /\ trucks[last.who].completed_loads = 2

\* C12: the mining duration of every truck is h x 60 minutes for a whole number
\* of hours h with min_mining_hours <= h <= max_mining_hours, and a MINING
\* truck never has more than max_mining_hours x 60 minutes left.
C12_MiningTimeWithinHours ==
  \A t \in 1..Len(trucks) :
    /\ \E h \in simulation_parameters.min_mining_hours..simulation_parameters.max_mining_hours :
         trucks[t].current_cycle_mining_time = h * 60
    /\ trucks[t].state = "MINING"
         => /\ trucks[t].remaining_time <= simulation_parameters.max_mining_hours * 60
            /\ trucks[t].remaining_time <= trucks[t].current_cycle_mining_time

\* a truck back at the mine has just drawn the longest mining time
C12_Witness ==
  /\ last.op = "Truck.cycle"
  /\ last.branch = "TRAVELING_TO_MINE"
  /\ trucks[last.who].state = "MINING"
  /\ trucks[last.who].remaining_time = simulation_parameters.max_mining_hours * 60
  /\ simulation_parameters.max_mining_hours > simulation_parameters.min_mining_hours

\* the shortest time to the end of a first unload
MinimumCycle ==
  simulation_parameters.min_mining_hours * 60
    + simulation_parameters.inbound_travel_time + simulation_parameters.unloading_time

\* C13: when the run is shorter than minimum mining + inbound travel +
\* unloading, no truck ever completes a load and the summary counts 0 loads.
C13_ShortRunDeliversNothing ==
  run_minutes < MinimumCycle
  => /\ \A t \in 1..Len(trucks) : trucks[t].completed_loads = 0
     /\ simulation_parameters.total_load_count = 0

\* a one-hour run with trucks and stations has been summarized
C13_Witness ==
  /\ pc = "done"
  /\ run_minutes < MinimumCycle
  /\ simulation_parameters.run_hours >= 1
  /\ Len(trucks) >= 2
  /\ Len(stations) >= 1
  /\ \E t \in 1..Len(trucks) : trucks[t].remaining_time < trucks[t].current_cycle_mining_time

TrucksIn(status) == Cardinality({t \in 1..Len(trucks) : trucks[t].state = status})

StationsIn(status) == Cardinality({i \in 1..Len(stations) : stations[i].state = status})

\* C14: every census row has the slice index and seven counts; the five truck
\* counts sum to the number of trucks and the two station counts to the number
\* of stations; and the row just appended holds, in the order MINING,
\* TRAVELING_TO_STATION, IDLE, UNLOADING, TRAVELING_TO_MINE, BUSY, IDLE, the
\* number of trucks and stations in that state after the tick (0 when none).
C14_CensusRowsAreExact ==
  /\ \A n \in 1..Len(DataRows) :
       /\ Len(DataRows[n]) = 8
       /\ DataRows[n][2] + DataRows[n][3] + DataRows[n][4] + DataRows[n][5] + DataRows[n][6]
            = Len(trucks)
       /\ DataRows[n][7] + DataRows[n][8] = Len(stations)
  /\ (pc = "for_time_slice" /\ time_slice > 0)
     => DataRows[Len(DataRows)] =
          << time_slice - 1,
             TrucksIn("MINING"), TrucksIn("TRAVELING_TO_STATION"), TrucksIn("IDLE"),
             TrucksIn("UNLOADING"), TrucksIn("TRAVELING_TO_MINE"),
             StationsIn("BUSY"), StationsIn("IDLE") >>

\* a row has been appended with a truck unloading at a busy station, another
\* truck waiting, and categories nothing is in
C14_Witness ==
  /\ pc = "for_time_slice"
  /\ time_slice > 1
  /\ TrucksIn("UNLOADING") = 1
  /\ TrucksIn("IDLE") = 1
  /\ StationsIn("BUSY") = 1
  /\ StationsIn("IDLE") = 0
  /\ DataRows[Len(DataRows)] = <<time_slice - 1, 0, 0, 1, 1, 0, 1, 0>>

\* slice_time divides every duration and the run length, and nothing is negative
ValidConfiguration ==
  LET sp == simulation_parameters
  IN  /\ \A d \in {sp.inbound_travel_time, sp.outbound_travel_time, sp.unloading_time,
                   sp.idle_wait_time, sp.run_hours * 60} :
           d >= 0 /\ d % sp.slice_time = 0
      /\ sp.num_trucks >= 0 /\ sp.num_stations >= 0

\* C15: a configuration with a duration that is not a multiple of slice_time
\* (or a negative count or duration) is rejected when it is constructed: the
\* simulation never goes on to build trucks and run ticks with it.
C15_InvalidConfigurationRejected ==
  ~ValidConfiguration => pc = "initialize_trucks"

\* C16: with zero trucks or zero stations (and a run of at least one hour) the
\* efficiency computations of the final report return a result, they do not
\* fail on a division by zero.
C16_EfficiencyDefinedWithoutFleet ==
  (pc = "done" /\ simulation_parameters.run_hours >= 1
     /\ (simulation_parameters.num_trucks = 0 \/ simulation_parameters.num_stations = 0))
  => /\ generate_truck_efficiency.raises = ""
     /\ generate_station_efficiency.raises = ""

\* the value the counter was given when the truck entered its current state
EnteredDuration(truck) ==
  CASE truck.state = "MINING" -> truck.current_cycle_mining_time
    [] truck.state = "TRAVELING_TO_STATION" -> simulation_parameters.inbound_travel_time
    [] truck.state = "UNLOADING" -> simulation_parameters.unloading_time
    [] truck.state = "TRAVELING_TO_MINE" -> simulation_parameters.outbound_travel_time
    [] truck.state = "IDLE" -> simulation_parameters.idle_wait_time

\* C17: a cycle() call entered with remaining_time 0 adds the duration of the
\* state just left to that state's accumulator and leaves the other four
\* accumulators unchanged (so the retry of an IDLE truck changes only IDLE).
C17_OneAccumulatorPerTransition ==
  [][ (CyclingTruck /\ trucks[idx].remaining_time = 0)
      => trucks'[idx].time_logs =
           [trucks[idx].time_logs EXCEPT
              ![trucks[idx].state] = @ + EnteredDuration(trucks[idx])]
    ]_vars

\* C18: a station serves one truck at a time: no census row counts more trucks
\* UNLOADING than there are stations.
C18_UnloadingWithinStations ==
  \A n \in 1..Len(DataRows) : DataRows[n][5] <= Len(stations)

\* slice_time divides every duration a truck's counter is set to
DurationsAreMultiples ==
  LET sp == simulation_parameters
  IN  \A d \in {sp.inbound_travel_time, sp.outbound_travel_time, sp.unloading_time,
                sp.idle_wait_time} \cup generate_mining_time :
        d % sp.slice_time = 0

\* C19: with every duration a multiple of slice_time, the cycle() call that
\* runs a truck's transition out of a state entered with duration D is the
\* (D/slice_time + 1)-th consecutive call made in that state, and a call
\* entered with remaining_time > 0 never runs a transition.
C19_TicksPerState ==
  [][ (CyclingTruck /\ DurationsAreMultiples)
      => /\ trucks[idx].remaining_time = 0
              => calls[idx] + 1 =
                   (EnteredDuration(trucks[idx]) \div simulation_parameters.slice_time) + 1
         /\ trucks[idx].remaining_time > 0
              => /\ trucks'[idx].state = trucks[idx].state
                 /\ trucks'[idx].time_logs = trucks[idx].time_logs
                 /\ trucks'[idx].completed_loads = trucks[idx].completed_loads
                 /\ calls'[idx] = calls[idx] + 1
    ]_vars

\* a truck has left a travel of several slices, having mined for an hour before
C19_Witness ==
  /\ DurationsAreMultiples
  /\ last.op = "Truck.cycle"
  /\ last.branch = "TRAVELING_TO_STATION"
  /\ calls[last.who] = 0
  /\ simulation_parameters.inbound_travel_time >= 2 * simulation_parameters.slice_time
  /\ trucks[last.who].time_logs["MINING"] > 0

\* C20: a cycle() call entered with remaining_time > 0 subtracts one slice_time
\* from the counter and changes nothing else of the truck, no other truck and
\* no station.
C20_WaitingChangesOnlyCounter ==
  [][ (CyclingTruck /\ trucks[idx].remaining_time > 0)
      => /\ trucks' = [trucks EXCEPT ![idx].remaining_time =
                                       @ - simulation_parameters.slice_time]
         /\ stations' = stations
    ]_vars

\* a truck with a finished load behind it has waited a slice while a station is BUSY
C20_Witness ==
  /\ last.op = "Truck.cycle"
  /\ last.branch = "stay"
  /\ trucks[last.who].completed_loads >= 1
  /\ trucks[last.who].remaining_time >= 0
  /\ \E i \in 1..Len(stations) : stations[i].state = "BUSY"
\* C21: a station is BUSY for exactly one tick per attachment, whatever the
\* unloading duration: a station turns BUSY only in a truck's cycle(), a BUSY
\* station is changed by nothing but its own cycle() (so it is BUSY in the census
\* of that tick), that cycle() in the next station phase returns it to IDLE with
\* one slice_time more of busy_minutes and one more completed unload, nothing
\* else adds to these two, and the station phase ends with every station IDLE.
C21_BusyOneTickPerAttachment ==
  [][ \A j \in 1..Len(stations) :
        /\ (stations[j].state = "IDLE" /\ stations'[j].state = "BUSY") => CyclingTruck
        /\ (stations[j].state = "BUSY" /\ ~(CyclingStation /\ idx = j))
             => stations'[j] = stations[j]
        /\ (stations[j].state = "BUSY" /\ CyclingStation /\ idx = j)
             => /\ stations'[j].state = "IDLE"
                /\ stations'[j].busy_minutes =
                     stations[j].busy_minutes + simulation_parameters.slice_time
                /\ stations'[j].completed_loads = stations[j].completed_loads + 1
        /\ (\/ stations'[j].busy_minutes # stations[j].busy_minutes
            \/ stations'[j].completed_loads # stations[j].completed_loads)
             => (CyclingStation /\ idx = j /\ stations[j].state = "BUSY")
        /\ (pc = "stations" /\ pc' = "trucks") => stations'[j].state = "IDLE"
    ]_vars

\* a station has been released a second time, the unloading lasting several slices
C21_Witness ==
  /\ last.op = "Station.cycle"
  /\ last.branch = "BUSY"
  /\ simulation_parameters.unloading_time >= 2 * simulation_parameters.slice_time
  /\ stations[last.who].completed_loads = 2
  /\ stations[last.who].busy_minutes = 2 * simulation_parameters.slice_time
  /\ trucks[1].state = "UNLOADING"

\* C22: within a tick every station's cycle() is made before any truck's
\* cycle(): the station phase changes no truck and attaches nothing, the truck
\* phase starts only when the station loop has run to its end and releases
\* nothing, so an attachment is never released in the tick that made it; and
\* when a station is released its truck is still UNLOADING with the whole
\* unloading time left, its load not counted by that step.
C22_StationsBeforeTrucks ==
  [][ /\ pc = "stations"
           => /\ trucks' = trucks
              /\ \A j \in 1..Len(stations) :
                   stations'[j].state = "BUSY" => stations[j].state = "BUSY"
      /\ (pc' = "trucks" /\ pc # "trucks") => (pc = "stations" /\ idx > Len(stations))
      /\ pc = "trucks"
           => \A j \in 1..Len(stations) :
                /\ stations[j].state = "BUSY" => stations'[j].state = "BUSY"
                /\ stations'[j].completed_loads = stations[j].completed_loads
      /\ (CyclingStation /\ stations[idx].state = "BUSY")
           => LET truck == stations[idx].attached_truck
              IN  /\ truck \in 1..Len(trucks)
                  /\ trucks[truck].state = "UNLOADING"
                  /\ trucks[truck].remaining_time = simulation_parameters.unloading_time
                  /\ trucks'[truck] = trucks[truck]
    ]_vars

\* a station has just been released while the truck it served, on its second
\* load, is still unloading
C22_Witness ==
  /\ last.op = "Station.cycle"
  /\ last.branch = "BUSY"
  /\ stations[last.who].state = "IDLE"
  /\ \E t \in 1..Len(trucks) :
       /\ trucks[t].state = "UNLOADING"
       /\ trucks[t].remaining_time = simulation_parameters.unloading_time
       /\ trucks[t].completed_loads = 1

\* C23: a truck's remaining_time never increases while the truck stays in the
\* same state: over a tick that leaves a truck's state unchanged the counter
\* does not grow.
C23_CounterNeverIncreasesInState ==
  [][ \A t \in 1..Len(trucks) :
        trucks'[t].state = trucks[t].state
        => trucks'[t].remaining_time <= trucks[t].remaining_time
    ]_vars

\* C23 as amended: over a tick that leaves a truck's state unchanged the
\* counter does not grow, except in the retry of an IDLE truck whose counter is
\* 0 and that finds no station: it stays IDLE with the counter set back to
\* idle_wait_time.  A call entered with a non-zero counter lowers it by
\* slice_time.
C23_CounterGrowsOnlyOnIdleRetry ==
  [][ \A t \in 1..Len(trucks) :
        /\ trucks'[t].state = trucks[t].state
           => \/ trucks'[t].remaining_time <= trucks[t].remaining_time
              \/ /\ CyclingTruck /\ idx = t
                 /\ trucks[t].state = "IDLE"
                 /\ trucks[t].remaining_time = 0
                 /\ AllBusy(stations)
                 /\ trucks'[t].remaining_time = simulation_parameters.idle_wait_time
        /\ (CyclingTruck /\ idx = t /\ trucks[t].remaining_time # 0)
           => trucks'[t].remaining_time =
                trucks[t].remaining_time - simulation_parameters.slice_time
    ]_vars

\* an IDLE truck has retried a second time without finding a station and its
\* counter is back at the idle wait
C23_Witness ==
  /\ last.op = "Truck.cycle"
  /\ last.branch = "IDLE"
  /\ last.station = None
  /\ trucks[last.who].state = "IDLE"
  /\ simulation_parameters.idle_wait_time > 0
  /\ trucks[last.who].remaining_time = simulation_parameters.idle_wait_time
  /\ trucks[last.who].time_logs["IDLE"] = 2 * simulation_parameters.idle_wait_time

\* the trucks that entered UNLOADING in the tick being counted: nothing has
\* been taken off their unloading time yet
EnteredUnloading ==
  { t \in 1..Len(trucks) :
      /\ trucks[t].state = "UNLOADING"
      /\ trucks[t].remaining_time = simulation_parameters.unloading_time }

\* C24: attach() is only called on a station that is IDLE with no truck
\* attached, so an attached truck is never overwritten; a truck's cycle()
\* attaches to at most one station and does so exactly when the truck enters
\* UNLOADING; a station that is BUSY is not attached again in that tick; and at
\* the census the trucks that entered UNLOADING in the tick are as many as the
\* BUSY stations, at most num_stations.
C24_AttachOnlyIdleStation ==
  [][ /\ CyclingTruck
           => LET attached == { j \in 1..Len(stations) : stations'[j] # stations[j] }
              IN  /\ \A j \in attached :
                       /\ stations[j].state = "IDLE"
                       /\ stations[j].attached_truck = None
                       /\ stations'[j].attached_truck = idx
                  /\ Cardinality(attached) <= 1
                  /\ (trucks'[idx].state = "UNLOADING" /\ trucks[idx].state # "UNLOADING")
                       <=> (attached # {})
      /\ pc = "census"
           => /\ Cardinality(EnteredUnloading) = StationsIn("BUSY")
              /\ Cardinality(EnteredUnloading) <= simulation_parameters.num_stations
              /\ \A j \in 1..Len(stations) :
                   stations[j].state = "BUSY" => stations[j].attached_truck \in EnteredUnloading
    ]_vars

\* two trucks have attached in the same tick, each to its own station, both
\* stations having served a truck before
C24_Witness ==
  /\ pc = "census"
  /\ Len(stations) = 2
  /\ StationsIn("BUSY") = 2
  /\ stations[1].attached_truck # stations[2].attached_truck
  /\ stations[1].completed_loads >= 1
  /\ stations[2].completed_loads >= 1

\* unloads the stations have finished plus the ones they are busy with
StationAttachments ==
  SumOver([i \in 1..Len(stations) |-> stations[i].completed_loads]) + StationsIn("BUSY")

\* loads the trucks have delivered plus the ones they are unloading
TruckAttachments ==
  SumOver([t \in 1..Len(trucks) |-> trucks[t].completed_loads]) + TrucksIn("UNLOADING")

\* C25: conservation of attachments: at every census the stations' completed
\* unloads plus the BUSY stations equal the trucks' completed loads plus the
\* trucks in UNLOADING; both sides count the attach() calls made so far: each
\* grows by one in a step that attaches and is left as it is by every other step.
C25_AttachmentsConserved ==
  [][ LET attach == IF CyclingTruck /\ stations' # stations THEN 1 ELSE 0
      IN  /\ StationAttachments' = StationAttachments + attach
          /\ TruckAttachments' = TruckAttachments + attach
          /\ pc = "census" => StationAttachments = TruckAttachments
    ]_vars

\* a census with more trucks unloading than stations busy, after a release
C25_Witness ==
  /\ pc = "census"
  /\ StationsIn("BUSY") >= 1
  /\ TrucksIn("UNLOADING") > StationsIn("BUSY")
  /\ \E i \in 1..Len(stations) : stations[i].completed_loads >= 1
  /\ StationAttachments = TruckAttachments

\* C26: for every station, after N ticks of run_simulation (N = time_slice at
\* the loop head and from the return of the loop on) busy_minutes + idle_minutes
\* = N x slice_time and busy_minutes = slice_time x completed_loads.
C26_StationMinutesAccountForEveryTick ==
  pc \in {"for_time_slice", "summarize_truck_results", "summarize_station_results", "done"}
  => \A j \in 1..Len(stations) :
       /\ stations[j].busy_minutes + stations[j].idle_minutes
            = time_slice * simulation_parameters.slice_time
       /\ stations[j].busy_minutes
            = simulation_parameters.slice_time * stations[j].completed_loads

\* the run is over and a station has served two trucks and has been idle too
C26_Witness ==
  /\ pc = "done"
  /\ time_slice >= 3
  /\ \E j \in 1..Len(stations) :
       /\ stations[j].completed_loads >= 2
       /\ stations[j].idle_minutes > 0
       /\ stations[j].busy_minutes = 2 * simulation_parameters.slice_time

\* C27: when there are no more trucks than stations, no truck is ever IDLE, no
\* census row counts an IDLE truck and every truck's IDLE accumulator stays 0:
\* a truck that finishes its inbound travel finds an IDLE station at once.
C27_NoWaitingWithEnoughStations ==
  simulation_parameters.num_trucks <= simulation_parameters.num_stations
  => /\ \A t \in 1..Len(trucks) :
          /\ trucks[t].state # "IDLE"
          /\ trucks[t].time_logs["IDLE"] = 0
     /\ \A n \in 1..Len(DataRows) : DataRows[n][4] = 0

\* two trucks have arrived in the same tick at two stations, each for its
\* second load, and the row of the tick is written
C27_Witness ==
  /\ pc = "for_time_slice"
  /\ simulation_parameters.num_trucks = 2
  /\ simulation_parameters.num_stations = 2
  /\ StationsIn("BUSY") = 2
  /\ \A t \in 1..Len(trucks) :
       /\ trucks[t].state = "UNLOADING"
       /\ trucks[t].completed_loads = 1
  /\ Len(DataRows) >= 1
  /\ DataRows[Len(DataRows)][4] = 0

\* the trucks whose cycle() of the tick being counted asked for a station: the
\* call ran a transition and left the truck UNLOADING or IDLE
Requesters ==
  { t \in 1..Len(trucks) : calls[t] = 0 /\ trucks[t].state \in {"UNLOADING", "IDLE"} }

\* position of truck t among the requesting trucks, in truck-list order
RequestRank(t) == Cardinality({ u \in Requesters : u <= t })

\* C28: at every census the BUSY stations are a prefix of the station list,
\* they are min(number of trucks that asked for a station in the tick, number
\* of stations) many, and the trucks are served in truck-list order: the i-th
\* truck that asked is attached to station i, the ones beyond the last station
\* are IDLE.
C28_BusyStationsArePrefix ==
  pc = "census"
  => LET asked == Cardinality(Requesters)
         served == IF asked <= Len(stations) THEN asked ELSE Len(stations)
     IN  /\ \A j \in 1..Len(stations) :
              stations[j].state = "BUSY" => \A i \in 1..(j - 1) : stations[i].state = "BUSY"
         /\ StationsIn("BUSY") = served
         /\ \A t \in Requesters :
              IF RequestRank(t) <= Len(stations)
              THEN /\ trucks[t].state = "UNLOADING"
                   /\ stations[RequestRank(t)].attached_truck = t
              ELSE trucks[t].state = "IDLE"

\* two trucks asked in the same tick, the second of them after a wait: the
\* first station serves the first, the second is turned away again
C28_Witness ==
  /\ pc = "census"
  /\ Len(stations) = 1
  /\ Requesters = {1, 2}
  /\ stations[1].attached_truck = 1
  /\ trucks[2].state = "IDLE"
  /\ trucks[2].time_logs["IDLE"] > 0

\* slice_time divides every configured duration
SliceDividesDurations ==
  LET sp == simulation_parameters
  IN  \A d \in {sp.min_mining_hours * 60, sp.max_mining_hours * 60, sp.inbound_travel_time,
                 sp.outbound_travel_time, sp.unloading_time, sp.idle_wait_time} :
        d % sp.slice_time = 0

LargestDuration ==
  LET sp == simulation_parameters
      durations == {sp.max_mining_hours * 60, sp.inbound_travel_time,
                    sp.outbound_travel_time, sp.unloading_time, sp.idle_wait_time}
  IN  CHOOSE d \in durations : \A e \in durations : e <= d

\* C29: when slice_time divides every configured duration, every truck's
\* remaining_time is always a multiple of slice_time between 0 and the largest
\* configured duration; it is the duration the state was entered with less one
\* slice_time per call made since, so it reaches exactly 0 after
\* duration/slice_time calls and the next call runs a transition.
C29_CounterIsMultipleOfSlice ==
  SliceDividesDurations
  => \A t \in 1..Len(trucks) :
       /\ trucks[t].remaining_time >= 0
       /\ trucks[t].remaining_time % simulation_parameters.slice_time = 0
       /\ trucks[t].remaining_time <= LargestDuration
       /\ trucks[t].remaining_time =
            EnteredDuration(trucks[t]) - calls[t] * simulation_parameters.slice_time

\* a truck on its second load has counted its unloading time down to 0 over
\* several calls and waits for the call that runs the transition
C29_Witness ==
  /\ SliceDividesDurations
  /\ CyclingTruck
  /\ trucks[idx].state = "UNLOADING"
  /\ trucks[idx].remaining_time = 0
  /\ calls[idx] >= 2
  /\ calls[idx] * simulation_parameters.slice_time = simulation_parameters.unloading_time
  /\ trucks[idx].completed_loads = 1

\* C30: at every census the truck attached to a BUSY station is a truck of the
\* list, in state UNLOADING with the whole unloading_time left, and no truck is
\* attached to two stations.
C30_BusyStationHoldsFreshUnloader ==
  pc = "census"
  => /\ \A j \in 1..Len(stations) :
          stations[j].state = "BUSY"
          => /\ stations[j].attached_truck \in 1..Len(trucks)
             /\ trucks[stations[j].attached_truck].state = "UNLOADING"
             /\ trucks[stations[j].attached_truck].remaining_time
                  = simulation_parameters.unloading_time
     /\ \A i, j \in 1..Len(stations) :
          (i # j /\ stations[i].state = "BUSY" /\ stations[j].state = "BUSY")
          => stations[i].attached_truck # stations[j].attached_truck

\* the only station holds the second truck, which has just arrived, while the
\* first truck is still unloading with nothing left on its counter
C30_Witness ==
  /\ pc = "census"
  /\ Len(stations) = 1
  /\ stations[1].state = "BUSY"
  /\ stations[1].attached_truck = 2
  /\ trucks[2].state = "UNLOADING"
  /\ trucks[1].state = "UNLOADING"
  /\ trucks[1].remaining_time = 0
  /\ simulation_parameters.unloading_time > 0
=============================================================================
